---- MODULE Spec2Model ----
(***************************************************************************)
(* Model of the lecture UI: the home page, the processing page and the     *)
(* results page with its transcript, search, questions and concept-map     *)
(* views.                                                                  *)
(*                                                                         *)
(* Strings are sequences of one-character strings, so that substring,      *)
(* indexOf, split and toLowerCase are computed character by character.     *)
(* Positions are 0-based as in the source; SubSeq is 1-based.              *)
(* The alphabet is restricted to characters whose lower-case form is one   *)
(* character.                                                              *)
(*                                                                         *)
(* A score is the exact quotient relevanceScore / searchTerms.length, kept *)
(* as the record [num, den].                                               *)
(***************************************************************************)
EXTENDS Integers, Sequences, FiniteSets, TLC

VARIABLES
    \* ResultsPage, ResultsPage.tsx:31-33
    activeTab,      \* useState('summary')
    isPlaying,      \* useState(false)
    orphanTimers,   \* the number of setTimeout callbacks not yet run that
                    \* belong to a search view since unmounted
    \* the fields of the lectureData prop, part_000:97-107
    transcription,  \* [segments : Seq([start, end, text])]
    summaries,
    questions,      \* [multiple_choice : Seq([options, correct_answer]),
                    \*  open_ended : Seq(..)]
    conceptMap,     \* concept_map: [nodes : Seq([id, type]),
                    \*               edges : Seq([from, to])]
    search_results,
    \* SearchTab
    query,          \* useState('')            SearchTab.tsx:23
    results,        \* useState([])            SearchTab.tsx:24
    isSearching,    \* useState(false)         SearchTab.tsx:25
    sortBy,         \* useState('relevance')   SearchTab.tsx:26
    showAdvanced,   \* useState(false)         SearchTab.tsx:27
    searchHistory,  \* useState([])            SearchTab.tsx:28
    pending,        \* the setTimeout callbacks not yet run, oldest first;
                    \* each holds what its closure captured
    shown,          \* history variable: the setResults call that produced
                    \* the current value of results
    \* QuestionsTab, SearchTab.tsx:703-709
    questionMode,
    currentQuestionIndex,
    selectedAnswers,    \* Record<number, number>: a function on the
                        \* 0-based indices of the answered questions
    showExplanation,    \* Record<number, boolean>: the set of the indices
                        \* that are set (only true is ever stored)
    testMode,
    testCompleted,
    score,
    \* ConceptMapTab, ConceptMapTab.tsx:22-27
    zoom,               \* an exact fraction [num, den] in lowest terms
    pan,
    selectedNode,
    highlightedNodes,
    showLabels,
    filterType,
    \* TranscriptionTab, SearchTab.tsx:453-456
    searchTerm,
    currentSegment,     \* an index of the list on display, or NoSegment
    viewMode,
    \* ProcessingPage, ProcessingPage.tsx:5-6
    currentStep,
    progress,
    ticks,              \* history variable: the interval callbacks run
    \* HomePage, part_001:9
    dragActive,
    uploaded,           \* history variable: the files onFileUpload was
                        \* called with
    alerted,            \* history variable: the files the alert was
                        \* shown for
    lastEvent           \* history variable: the event handled last

\* the state of the search view
searchVars == <<transcription, query, results, isSearching, sortBy,
                showAdvanced, searchHistory, pending, shown>>

pageVars == <<activeTab, isPlaying, orphanTimers>>

\* the lecture data other than the transcript
lectureVars == <<summaries, questions, conceptMap, search_results>>

quizVars == <<questionMode, currentQuestionIndex, selectedAnswers,
              showExplanation, testMode, testCompleted, score>>

mapVars == <<zoom, pan, selectedNode, highlightedNodes, showLabels,
             filterType>>

\* the state of the transcript view; the marks of the copy buttons are
\* left out
transcriptVars == <<searchTerm, currentSegment, viewMode>>

processingVars == <<currentStep, progress, ticks>>

homeVars == <<dragActive, uploaded, alerted, lastEvent>>

\* the transcript view and the pages other than the results page
restVars == <<transcriptVars, processingVars, homeVars>>

vars == <<searchVars, pageVars, lectureVars, quizVars, mapVars, restVars>>

\* what a handler of the search view leaves alone outside that view
SearchViewOnly ==
    UNCHANGED <<pageVars, lectureVars, quizVars, mapVars, restVars>>

----------------------------------------------------------------------------
(* Bounds of the model *)

MaxPending == 1

(* Program constants *)

MaxResults == 10
HistoryKeep == 4
ContextRadius == 50
FallbackLength == 100

----------------------------------------------------------------------------
(* JavaScript string and array primitives *)

Min(a, b) == IF a <= b THEN a ELSE b

Max(a, b) == IF a >= b THEN a ELSE b

ToLowerChar(c) ==
    CASE c = "M" -> "m"
      [] c = "L" -> "l"
      [] OTHER -> c

ToLower(s) == [i \in 1..Len(s) |-> ToLowerChar(s[i])]

\* s.substring(from, to) for 0 <= from <= to
Substring(s, from, to) == SubSeq(s, from + 1, Min(to, Len(s)))

\* s.indexOf(t): the first 0-based position of t in s, -1 when there is none
IndexOf(s, t) ==
    LET hits == {i \in 0..(Len(s) - Len(t)) : SubSeq(s, i + 1, i + Len(t)) = t}
    IN  IF hits = {} THEN -1
        ELSE CHOOSE i \in hits : \A j \in hits : i <= j

\* s.includes(t)
Includes(s, t) == IndexOf(s, t) # -1

\* s.trim(), for the one white-space character of the alphabet
RECURSIVE TrimLeft(_)
TrimLeft(s) ==
    IF s # <<>> /\ Head(s) = " " THEN TrimLeft(Tail(s)) ELSE s

RECURSIVE TrimRight(_)
TrimRight(s) ==
    IF s # <<>> /\ s[Len(s)] = " " THEN TrimRight(SubSeq(s, 1, Len(s) - 1))
    ELSE s

Trim(s) == TrimRight(TrimLeft(s))

\* s.split(' '): every single space separates two terms, so a leading,
\* trailing or repeated space yields an empty term
RECURSIVE Split(_)
Split(s) ==
    LET i == IndexOf(s, <<" ">>)
    IN  IF i = -1 THEN <<s>>
        ELSE <<SubSeq(s, 1, i)>> \o Split(SubSeq(s, i + 2, Len(s)))

\* array.includes(x)
Contains(seq, x) == \E i \in 1..Len(seq) : seq[i] = x

\* a.localeCompare(b) on time codes: digits and ':' compare in their order
CharRank(c) ==
    CASE c = ":" -> 0
      [] c = "0" -> 1 [] c = "1" -> 2 [] c = "2" -> 3 [] c = "3" -> 4
      [] c = "4" -> 5 [] c = "5" -> 6 [] c = "6" -> 7 [] c = "7" -> 8
      [] c = "8" -> 9 [] c = "9" -> 10
      [] OTHER -> 11

RECURSIVE LocaleCompare(_, _)
LocaleCompare(a, b) ==
    IF a = <<>> /\ b = <<>> THEN 0
    ELSE IF a = <<>> THEN -1
    ELSE IF b = <<>> THEN 1
    ELSE IF CharRank(Head(a)) < CharRank(Head(b)) THEN -1
    ELSE IF CharRank(Head(a)) > CharRank(Head(b)) THEN 1
    ELSE LocaleCompare(Tail(a), Tail(b))

----------------------------------------------------------------------------
(* getContext, SearchTab.tsx:100-112 *)

Ellipsis == <<".", ".", ".">>

\* getContext with the window's end computed without the query's length
getContextShortEnd(text, q) ==
    LET queryIndex == IndexOf(ToLower(text), ToLower(q))
        start == Max(0, queryIndex - ContextRadius)
        end == Min(Len(text), queryIndex + ContextRadius)
    IN  IF queryIndex = -1
        THEN Substring(text, 0, FallbackLength) \o <<".", ".", ".">>
        ELSE (IF start > 0 THEN <<".", ".", ".">> ELSE <<>>)
             \o Substring(text, start, end)
             \o (IF end < Len(text) THEN <<".", ".", ".">> ELSE <<>>)

\* getContext with the window starting at the beginning of the text
getContextFromStart(text, q) ==
    LET queryIndex == IndexOf(ToLower(text), ToLower(q))
        start == 0
        end == Min(Len(text), queryIndex + Len(q) + ContextRadius)
    IN  IF queryIndex = -1
        THEN Substring(text, 0, FallbackLength) \o <<".", ".", ".">>
        ELSE (IF start > 0 THEN <<".", ".", ".">> ELSE <<>>)
             \o Substring(text, start, end)
             \o (IF end < Len(text) THEN <<".", ".", ".">> ELSE <<>>)

getContext(text, q) ==
    LET queryIndex == IndexOf(ToLower(text), ToLower(q))
        start == Max(0, queryIndex - ContextRadius)
        end == Min(Len(text), queryIndex + Len(q) + ContextRadius)
    IN  IF queryIndex = -1
        THEN Substring(text, 0, FallbackLength) \o Ellipsis
        ELSE (IF start > 0 THEN Ellipsis ELSE <<>>)
             \o Substring(text, start, end)
             \o (IF end < Len(text) THEN Ellipsis ELSE <<>>)

----------------------------------------------------------------------------
(* The body of the timer callback of performSearch, SearchTab.tsx:50-96 *)

searchTerms(searchQuery) == Split(ToLower(searchQuery))

\* the forEach over searchTerms, lines 59-67
RECURSIVE ScoreTerms(_, _, _)
ScoreTerms(terms, segmentText, searchQuery) ==
    IF terms = <<>> THEN 0
    ELSE (IF Includes(segmentText, Head(terms))
          THEN 1 + (IF Includes(segmentText, ToLower(searchQuery))
                    THEN 2 ELSE 0)
          ELSE 0)
         + ScoreTerms(Tail(terms), segmentText, searchQuery)

relevanceScore(segment, searchQuery) ==
    ScoreTerms(searchTerms(searchQuery), ToLower(segment.text), searchQuery)

\* searchResults keeping the segments whose score is 0
RECURSIVE searchResultsKeepZero(_, _)
searchResultsKeepZero(segments, searchQuery) ==
    IF segments = <<>> THEN <<>>
    ELSE LET segment == Head(segments)
             relevance == relevanceScore(segment, searchQuery)
         IN  << [segment |-> segment,
                 score |-> [num |-> relevance,
                            den |-> Len(searchTerms(searchQuery))],
                 context |-> getContext(segment.text, searchQuery)] >>
             \o searchResultsKeepZero(Tail(segments), searchQuery)

\* the forEach over transcription.segments, lines 54-79
RECURSIVE searchResults(_, _)
searchResults(segments, searchQuery) ==
    IF segments = <<>> THEN <<>>
    ELSE LET segment == Head(segments)
             relevance == relevanceScore(segment, searchQuery)
         IN  (IF relevance > 0
              THEN << [segment |-> segment,
                       score |-> [num |-> relevance,
                                  den |-> Len(searchTerms(searchQuery))],
                       context |-> getContext(segment.text, searchQuery)] >>
              ELSE <<>>)
             \o searchResults(Tail(segments), searchQuery)

\* Compare with a and b exchanged in the relevance branch
CompareAscending(a, b, sortMode) ==
    IF sortMode = "relevance"
    THEN a.score.num * b.score.den - b.score.num * a.score.den
    ELSE LocaleCompare(a.segment.start, b.segment.start)

\* the comparator of lines 82-88: negative when a sorts before b
Compare(a, b, sortMode) ==
    IF sortMode = "relevance"
    THEN b.score.num * a.score.den - a.score.num * b.score.den
    ELSE LocaleCompare(a.segment.start, b.segment.start)

\* Array.prototype.sort is stable: an element goes behind every element
\* that does not compare greater than it
RECURSIVE Insert(_, _, _)
Insert(sorted, x, sortMode) ==
    IF sorted = <<>> THEN <<x>>
    ELSE IF Compare(Head(sorted), x, sortMode) <= 0
         THEN <<Head(sorted)>> \o Insert(Tail(sorted), x, sortMode)
         ELSE <<x>> \o sorted

RECURSIVE Sort(_, _)
Sort(seq, sortMode) ==
    IF seq = <<>> THEN <<>>
    ELSE Insert(Sort(SubSeq(seq, 1, Len(seq) - 1), sortMode),
                seq[Len(seq)], sortMode)

sortedResults(segments, searchQuery, sortMode) ==
    Sort(searchResults(segments, searchQuery), sortMode)

\* Slice without the cut
SliceNone(seq, n) == seq

\* sortedResults.slice(0, 10), line 90
Slice(seq, n) == SubSeq(seq, 1, Min(n, Len(seq)))

----------------------------------------------------------------------------
(* Inputs: transcripts and queries *)

Pad(n) == [i \in 1..n |-> "x"]

Digit(d) ==
    CASE d = 0 -> "0" [] d = 1 -> "1" [] d = 2 -> "2" [] d = 3 -> "3"
      [] d = 4 -> "4" [] d = 5 -> "5" [] d = 6 -> "6" [] d = 7 -> "7"
      [] d = 8 -> "8" [] d = 9 -> "9"

\* "00:00:SS"
TimeCode(s) ==
    <<"0", "0", ":", "0", "0", ":", Digit(s \div 10), Digit(s % 10)>>

\* segment i of a transcript occupies seconds 2i-2 .. 2i-1
Segments(texts) ==
    [i \in 1..Len(texts) |->
        [start |-> TimeCode(2 * i - 2), end |-> TimeCode(2 * i - 1),
         text |-> texts[i]]]

WMachine == <<"m", "a", "c", "h", "i", "n", "e">>

WLearning == <<"l", "e", "a", "r", "n", "i", "n", "g">>

Sp == <<" ">>

ML == WMachine \o Sp \o WLearning

LM == WLearning \o Sp \o WMachine

\* "machine learning is a subset of artificial intelligence"
ScenarioText ==
    ML \o
    <<" ", "i", "s", " ", "a", " ", "s", "u", "b", "s", "e", "t",
      " ", "o", "f", " ", "a", "r", "t", "i", "f", "i", "c", "i", "a", "l",
      " ", "i", "n", "t", "e", "l", "l", "i", "g", "e", "n", "c", "e">>

ScenarioTranscript ==
    [segments |-> << [start |-> TimeCode(0), end |-> TimeCode(5),
                      text |-> ScenarioText] >>]

\* thirteen short segments; twelve of them match either query, and the
\* best matches come late
ManyTranscript ==
    [segments |-> Segments(<<
        WMachine, WLearning, <<"x">>, ML, LM, WMachine \o WLearning,
        ML, WLearning, LM, ML, WMachine, ML, LM \o Sp \o WLearning >>)]

PadSeq == <<0, 50, 51>>

\* nine segments "x..xMachine Learningx..x": 0, 50 or 51 characters before
\* the phrase and 0, 50 or 51 after it
ContextTranscript ==
    [segments |-> Segments([i \in 1..(Len(PadSeq) * Len(PadSeq)) |->
        Pad(PadSeq[((i - 1) \div Len(PadSeq)) + 1])
        \o <<"M">> \o Tail(WMachine) \o Sp \o <<"L">> \o Tail(WLearning)
        \o Pad(PadSeq[((i - 1) % Len(PadSeq)) + 1])])]

Transcripts == {ScenarioTranscript, ManyTranscript, ContextTranscript}

QEmpty == <<>>

QSpace == <<" ">>

QPhrase == ML

QTerms == LM

Queries == {QEmpty, QSpace, QPhrase, QTerms}

\* the suggested queries of lines 32-38, written in the model's alphabet
suggestedQueries == <<QPhrase, QTerms>>

SortModes == {"relevance", "time"}

----------------------------------------------------------------------------
(* The rest of the lecture data *)

\* selectedAnswers = {}
NoAnswers == [i \in {} |-> 0]

\* a MultipleChoiceQuestion, part_000:55-60, without its texts
Question(options, correct_answer) ==
    [options |-> options, correct_answer |-> correct_answer]

TwoOptions == <<"a", "b">>

ThreeOptions == <<"a", "b", "c">>

\* every correct_answer is the index of an option
SoundQuestions ==
    [multiple_choice |-> << Question(TwoOptions, 1),
                            Question(ThreeOptions, 0),
                            Question(TwoOptions, 0) >>,
     open_ended |-> << "o" >>]

\* the second correct_answer is one past the last option
UnsoundQuestions ==
    [multiple_choice |-> << Question(TwoOptions, 0),
                            Question(TwoOptions, 2) >>,
     open_ended |-> <<>>]

NoQuestions == [multiple_choice |-> <<>>, open_ended |-> <<>>]

Quizzes == {SoundQuestions, UnsoundQuestions, NoQuestions}

\* a ConceptNode and a ConceptEdge, part_000:72-84, without label, size
\* and strength
Node(id, type) == [id |-> id, type |-> type]

Edge(from, to) == [from |-> from, to |-> to]

\* a root, two main nodes and a concept; "n" has no edge
StarMap ==
    [nodes |-> << Node("r", "root"), Node("m", "main"), Node("n", "main"),
                  Node("c", "concept") >>,
     edges |-> << Edge("r", "m"), Edge("m", "c") >>]

\* no root, and an edge to a node that is not in the map
LooseMap ==
    [nodes |-> << Node("m", "main"), Node("c", "concept") >>,
     edges |-> << Edge("c", "m"), Edge("m", "z") >>]

ConceptMaps == {StarMap, LooseMap}

\* Summaries, part_000:48-53: the three texts and the key points
SomeSummaries ==
    [brief |-> <<"b">>, medium |-> <<"m">>, detailed |-> <<"d">>,
     key_points |-> << <<"k">> >>]

\* the search_results the lecture is delivered with, part_000:91-95
SomeSearchResults ==
    << [segment |-> [start |-> TimeCode(0), end |-> TimeCode(5),
                     text |-> <<"a">>],
        score |-> [num |-> 1, den |-> 1],
        context |-> <<"a">>] >>

----------------------------------------------------------------------------
(* Each view as it is mounted *)

\* SearchTab.tsx:23-28
SearchTabInit ==
    /\ query = <<>>
    /\ results = <<>>
    /\ isSearching = FALSE
    /\ sortBy = "relevance"
    /\ showAdvanced = FALSE
    /\ searchHistory = <<>>
    /\ pending = <<>>
    /\ shown = [kind |-> "initial"]

\* SearchTab.tsx:703-709
QuestionsTabInit ==
    /\ questionMode = "multiple_choice"
    /\ currentQuestionIndex = 0
    /\ selectedAnswers = NoAnswers
    /\ showExplanation = {}
    /\ testMode = FALSE
    /\ testCompleted = FALSE
    /\ score = 0

\* useState(1) as a fraction, ConceptMapTab.tsx:22
InitialZoom == [num |-> 1, den |-> 1]

\* ConceptMapTab.tsx:22-27
ConceptMapTabInit ==
    /\ zoom = InitialZoom
    /\ pan = [x |-> 0, y |-> 0]
    /\ selectedNode = "null"
    /\ highlightedNodes = {}
    /\ showLabels = TRUE
    /\ filterType = "all"

\* currentSegment = null
NoSegment == -1

\* SearchTab.tsx:453-456
TranscriptionTabInit ==
    /\ searchTerm = <<>>
    /\ currentSegment = NoSegment
    /\ viewMode = "segments"

\* ProcessingPage.tsx:5-6
ProcessingPageInit ==
    /\ currentStep = 0
    /\ progress = 0
    /\ ticks = 0

\* part_001:9; nothing was dropped or selected yet
HomePageInit ==
    /\ dragActive = FALSE
    /\ uploaded = {}
    /\ alerted = {}
    /\ lastEvent = [type |-> "none", files |-> <<>>]

\* the lecture around a search view under study: one fixed quiz, concept
\* map, summaries and delivered search results
PlainLecture ==
    /\ summaries = SomeSummaries
    /\ questions = SoundQuestions
    /\ conceptMap = StarMap
    /\ search_results = SomeSearchResults

----------------------------------------------------------------------------
(* State machine *)

\* the search view just mounted on one of the transcripts
Init ==
    /\ transcription \in Transcripts
    /\ query = <<>>
    /\ results = <<>>
    /\ isSearching = FALSE
    /\ sortBy = "relevance"
    /\ showAdvanced = FALSE
    /\ searchHistory = <<>>
    /\ pending = <<>>
    /\ shown = [kind |-> "initial"]
    /\ activeTab = "search" /\ isPlaying = FALSE /\ orphanTimers = 0
    /\ PlainLecture
    /\ QuestionsTabInit
    /\ ConceptMapTabInit
    /\ TranscriptionTabInit
    /\ ProcessingPageInit
    /\ HomePageInit

\* performSearch testing the query for emptiness without trim()
performSearchNoTrim(searchQuery, sortMode) ==
    IF searchQuery = <<>>
    THEN /\ results' = <<>>
         /\ shown' = [kind |-> "cleared"]
         /\ UNCHANGED <<isSearching, pending>>
    ELSE /\ isSearching' = TRUE
         /\ pending' = Append(pending, [searchQuery |-> searchQuery,
                                        sortBy |-> sortMode,
                                        searchHistory |-> searchHistory])
         /\ UNCHANGED <<results, shown>>

\* performSearch(searchQuery) called from a render whose sortBy is sortMode,
\* lines 41-50: the early return, or the timer is armed
performSearch(searchQuery, sortMode) ==
    IF Trim(searchQuery) = <<>>
    THEN /\ results' = <<>>
         /\ shown' = [kind |-> "cleared"]
         /\ UNCHANGED <<isSearching, pending>>
    ELSE /\ isSearching' = TRUE
         /\ pending' = Append(pending, [searchQuery |-> searchQuery,
                                        sortBy |-> sortMode,
                                        searchHistory |-> searchHistory])
         /\ UNCHANGED <<results, shown>>

\* handleSearch, lines 129-132
handleSearch(searchQuery) ==
    /\ query' = searchQuery
    /\ performSearch(searchQuery, sortBy)
    /\ UNCHANGED <<transcription, sortBy, showAdvanced, searchHistory>>
    /\ SearchViewOnly

\* input onChange, line 188
TypeQuery(q) ==
    /\ query' = q
    /\ UNCHANGED <<transcription, results, isSearching, sortBy, showAdvanced,
                   searchHistory, pending, shown>>
    /\ SearchViewOnly

\* input onKeyPress with Enter, lines 189-193
PressEnter == handleSearch(query)

\* the search button, lines 196-198
ClickSearch ==
    /\ ~(isSearching \/ Trim(query) = <<>>)
    /\ handleSearch(query)

\* a suggested query, lines 228-243
ClickSuggestion(i) ==
    /\ query = <<>>
    /\ handleSearch(suggestedQueries[i])

\* an entry of the search history, lines 246-262
ClickHistory(i) ==
    /\ Len(searchHistory) > 0 /\ query = <<>>
    /\ handleSearch(searchHistory[i])

\* the advanced-options button, line 170
ToggleAdvanced ==
    /\ showAdvanced' = ~showAdvanced
    /\ UNCHANGED <<transcription, query, results, isSearching, sortBy,
                   searchHistory, pending, shown>>
    /\ SearchViewOnly

\* the sort select, lines 215-217, and the effect on sortBy, lines 150-154
ChangeSort(s) ==
    /\ showAdvanced
    /\ s # sortBy
    /\ sortBy' = s
    /\ IF query # <<>>
       THEN performSearch(query, s)
       ELSE UNCHANGED <<results, isSearching, pending, shown>>
    /\ UNCHANGED <<transcription, query, showAdvanced, searchHistory>>
    /\ SearchViewOnly

\* the timer callback recording the query without cutting the history
TimerFiresNoCap ==
    /\ pending # <<>>
    /\ LET t == Head(pending)
       IN  /\ results' = Slice(sortedResults(transcription.segments,
                                             t.searchQuery, t.sortBy),
                               MaxResults)
           /\ shown' = [kind |-> "search", query |-> t.searchQuery,
                        sortBy |-> t.sortBy]
           /\ isSearching' = FALSE
           /\ searchHistory' =
                IF ~Contains(t.searchHistory, t.searchQuery)
                THEN <<t.searchQuery>> \o searchHistory
                ELSE searchHistory
    /\ pending' = Tail(pending)
    /\ UNCHANGED <<transcription, query, sortBy, showAdvanced>>
    /\ SearchViewOnly

\* the timer callback searching for the latest recorded query, when there
\* is one, in place of its own
TimerFiresFromHistory ==
    /\ pending # <<>>
    /\ LET t == Head(pending)
       IN  /\ results' = Slice(sortedResults(transcription.segments,
                                             IF t.searchHistory # <<>>
                                             THEN t.searchHistory[1]
                                             ELSE t.searchQuery, t.sortBy),
                               MaxResults)
           /\ shown' = [kind |-> "search", query |-> t.searchQuery,
                        sortBy |-> t.sortBy]
           /\ isSearching' = FALSE
           /\ searchHistory' =
                IF ~Contains(t.searchHistory, t.searchQuery)
                THEN <<t.searchQuery>> \o Slice(searchHistory, HistoryKeep)
                ELSE searchHistory
    /\ pending' = Tail(pending)
    /\ UNCHANGED <<transcription, query, sortBy, showAdvanced>>
    /\ SearchViewOnly

\* the timer callback recording the query whether or not it is recorded
TimerFiresAlwaysRecord ==
    /\ pending # <<>>
    /\ LET t == Head(pending)
       IN  /\ results' = Slice(sortedResults(transcription.segments,
                                             t.searchQuery, t.sortBy),
                               MaxResults)
           /\ shown' = [kind |-> "search", query |-> t.searchQuery,
                        sortBy |-> t.sortBy]
           /\ isSearching' = FALSE
           /\ searchHistory' =
                <<t.searchQuery>> \o Slice(searchHistory, HistoryKeep)
    /\ pending' = Tail(pending)
    /\ UNCHANGED <<transcription, query, sortBy, showAdvanced>>
    /\ SearchViewOnly

\* the timer callback collecting its matches in the searchResults prop,
\* which is the lecture's search_results, in place of an array of its own
TimerFiresIntoProp ==
    /\ pending # <<>>
    /\ LET t == Head(pending)
           collected == Sort(search_results
                             \o searchResults(transcription.segments,
                                              t.searchQuery),
                             t.sortBy)
       IN  /\ search_results' = collected
           /\ results' = Slice(collected, MaxResults)
           /\ shown' = [kind |-> "search", query |-> t.searchQuery,
                        sortBy |-> t.sortBy]
           /\ isSearching' = FALSE
           /\ searchHistory' =
                IF ~Contains(t.searchHistory, t.searchQuery)
                THEN <<t.searchQuery>> \o Slice(searchHistory, HistoryKeep)
                ELSE searchHistory
    /\ pending' = Tail(pending)
    /\ UNCHANGED <<transcription, query, sortBy, showAdvanced>>
    /\ UNCHANGED <<pageVars, summaries, questions, conceptMap, quizVars,
                   mapVars, restVars>>

\* the oldest pending timer callback runs, lines 50-96
TimerFires ==
    /\ pending # <<>>
    /\ LET t == Head(pending)
       IN  /\ results' = Slice(sortedResults(transcription.segments,
                                             t.searchQuery, t.sortBy),
                               MaxResults)
           /\ shown' = [kind |-> "search", query |-> t.searchQuery,
                        sortBy |-> t.sortBy]
           /\ isSearching' = FALSE
           /\ searchHistory' =
                IF ~Contains(t.searchHistory, t.searchQuery)
                THEN <<t.searchQuery>> \o Slice(searchHistory, HistoryKeep)
                ELSE searchHistory
    /\ pending' = Tail(pending)
    /\ UNCHANGED <<transcription, query, sortBy, showAdvanced>>
    /\ SearchViewOnly

Next ==
    \/ \E q \in Queries : TypeQuery(q)
    \/ Len(pending) < MaxPending /\ PressEnter
    \/ Len(pending) < MaxPending /\ ClickSearch
    \/ \E i \in 1..Len(suggestedQueries) :
          Len(pending) < MaxPending /\ ClickSuggestion(i)
    \/ \E i \in 1..Len(searchHistory) :
          Len(pending) < MaxPending /\ ClickHistory(i)
    \/ ToggleAdvanced
    \/ \E s \in SortModes : Len(pending) < MaxPending /\ ChangeSort(s)
    \/ TimerFires

Spec == Init /\ [][Next]_vars

----------------------------------------------------------------------------
(* The search view under overlapping searches: a small transcript, short   *)
(* queries, and up to MaxOverlap timers pending at once                    *)

MaxOverlap == 2

EmptyTranscript == [segments |-> <<>>]

TinyTranscript == [segments |-> Segments(<< <<"a">>, <<"x">> >>)]

HistoryTranscripts == {EmptyTranscript, TinyTranscript}

QA == <<"a">>

QB == <<"b">>

\* a query with a leading space
QLead == <<" ", "a">>

HistoryQueries == {QEmpty, QA, QB, QLead}

\* the state after the advanced-options button was clicked once
InitHistory ==
    /\ transcription \in HistoryTranscripts
    /\ query = <<>>
    /\ results = <<>>
    /\ isSearching = FALSE
    /\ sortBy = "relevance"
    /\ showAdvanced = TRUE
    /\ searchHistory = <<>>
    /\ pending = <<>>
    /\ shown = [kind |-> "initial"]
    /\ activeTab = "search" /\ isPlaying = FALSE /\ orphanTimers = 0
    /\ PlainLecture
    /\ QuestionsTabInit
    /\ ConceptMapTabInit
    /\ TranscriptionTabInit
    /\ ProcessingPageInit
    /\ HomePageInit

\* the query is typed and Enter is pressed: onChange, then onKeyPress,
\* lines 188-193
SubmitQuery(q) == handleSearch(q)

NextHistory ==
    \/ \E q \in HistoryQueries : Len(pending) < MaxOverlap /\ SubmitQuery(q)
    \/ \E i \in 1..Len(searchHistory) :
          Len(pending) < MaxOverlap /\ ClickHistory(i)
    \/ \E s \in SortModes : Len(pending) < MaxOverlap /\ ChangeSort(s)
    \/ TimerFires

SpecHistory == InitHistory /\ [][NextHistory]_vars

----------------------------------------------------------------------------
(* The questions view, QuestionsTab in SearchTab.tsx *)

\* what a handler of the questions view leaves alone outside that view
QuestionsViewOnly ==
    UNCHANGED <<searchVars, pageVars, lectureVars, mapVars, restVars>>

\* SearchTab.tsx:711
mcQuestions == questions.multiple_choice

QuestionModes == {"multiple_choice", "open_ended"}

\* the reduce of lines 740-745 over the first n questions; the question
\* of 0-based index n - 1 is mcQuestions[n], and an index that was never
\* selected reads as undefined, which equals no correct_answer
RECURSIVE correctAnswers(_, _, _)
correctAnswers(mcs, answers, n) ==
    IF n = 0
    THEN 0
    ELSE correctAnswers(mcs, answers, n - 1)
         + (IF /\ (n - 1) \in DOMAIN answers
               /\ answers[n - 1] = mcs[n].correct_answer
            THEN 1
            ELSE 0)

\* a mode button, line 876
setQuestionMode(mode) ==
    /\ questionMode' = mode
    /\ UNCHANGED <<currentQuestionIndex, selectedAnswers, showExplanation,
                   testMode, testCompleted, score>>
    /\ QuestionsViewOnly

\* handleAnswerSelect showing the explanation in test mode as well
handleAnswerSelectReveal(questionIndex, answerIndex) ==
    /\ IF testMode /\ testCompleted
       THEN UNCHANGED <<selectedAnswers, showExplanation>>
       ELSE /\ selectedAnswers' =
                 [i \in DOMAIN selectedAnswers \cup {questionIndex} |->
                    IF i = questionIndex
                    THEN answerIndex
                    ELSE selectedAnswers[i]]
            /\ showExplanation' = showExplanation \cup {questionIndex}
    /\ UNCHANGED <<questionMode, currentQuestionIndex, testMode,
                   testCompleted, score>>
    /\ QuestionsViewOnly

\* handleAnswerSelect, lines 714-728
handleAnswerSelect(questionIndex, answerIndex) ==
    /\ IF testMode /\ testCompleted
       THEN UNCHANGED <<selectedAnswers, showExplanation>>
       ELSE /\ selectedAnswers' =
                 [i \in DOMAIN selectedAnswers \cup {questionIndex} |->
                    IF i = questionIndex
                    THEN answerIndex
                    ELSE selectedAnswers[i]]
            /\ showExplanation' =
                 IF ~testMode
                 THEN showExplanation \cup {questionIndex}
                 ELSE showExplanation
    /\ UNCHANGED <<questionMode, currentQuestionIndex, testMode,
                   testCompleted, score>>
    /\ QuestionsViewOnly

\* an option button that stays enabled after the test, its selection
\* taken whatever the state of the test
ClickOptionAfterTest(questionIndex, answerIndex) ==
    /\ questionMode = "multiple_choice"
    /\ selectedAnswers' =
         [i \in DOMAIN selectedAnswers \cup {questionIndex} |->
            IF i = questionIndex THEN answerIndex ELSE selectedAnswers[i]]
    /\ showExplanation' =
         IF ~testMode
         THEN showExplanation \cup {questionIndex}
         ELSE showExplanation
    /\ UNCHANGED <<questionMode, currentQuestionIndex, testMode,
                   testCompleted, score>>
    /\ QuestionsViewOnly

\* an option button, lines 895-938: the options are listed in the
\* multiple-choice mode and their buttons are disabled after the test
ClickOption(questionIndex, answerIndex) ==
    /\ questionMode = "multiple_choice"
    /\ ~(testMode /\ testCompleted)
    /\ handleAnswerSelect(questionIndex, answerIndex)

\* startTest, lines 730-737
startTest ==
    /\ testMode' = TRUE
    /\ testCompleted' = FALSE
    /\ selectedAnswers' = NoAnswers
    /\ showExplanation' = {}
    /\ currentQuestionIndex' = 0
    /\ score' = 0
    /\ UNCHANGED questionMode
    /\ QuestionsViewOnly

\* the start button, lines 816-824
ClickStartTest ==
    /\ questionMode = "multiple_choice" /\ ~testMode
    /\ startTest

\* completeTest scoring every answered question
completeTestCountAnswered ==
    /\ score' = Cardinality(DOMAIN selectedAnswers)
    /\ testCompleted' = TRUE
    /\ showExplanation' = 0..(Len(mcQuestions) - 1)
    /\ UNCHANGED <<questionMode, currentQuestionIndex, selectedAnswers,
                   testMode>>
    /\ QuestionsViewOnly

\* completeTest, lines 739-756
completeTest ==
    /\ score' = correctAnswers(mcQuestions, selectedAnswers, Len(mcQuestions))
    /\ testCompleted' = TRUE
    /\ showExplanation' = 0..(Len(mcQuestions) - 1)
    /\ UNCHANGED <<questionMode, currentQuestionIndex, selectedAnswers,
                   testMode>>
    /\ QuestionsViewOnly

\* the finish button, lines 826-834
ClickCompleteTest ==
    /\ testMode /\ ~testCompleted
    /\ completeTest

\* resetTest, lines 758-765
resetTest ==
    /\ testMode' = FALSE
    /\ testCompleted' = FALSE
    /\ selectedAnswers' = NoAnswers
    /\ showExplanation' = {}
    /\ currentQuestionIndex' = 0
    /\ score' = 0
    /\ UNCHANGED questionMode
    /\ QuestionsViewOnly

\* the retry button, lines 836-844
ClickResetTest ==
    /\ testCompleted
    /\ resetTest

\* the questions view just mounted on one of the quizzes
InitQuiz ==
    /\ activeTab = "questions" /\ isPlaying = FALSE /\ orphanTimers = 0
    /\ transcription = TinyTranscript
    /\ summaries = SomeSummaries
    /\ questions \in Quizzes
    /\ conceptMap = StarMap
    /\ search_results = SomeSearchResults
    /\ SearchTabInit
    /\ QuestionsTabInit
    /\ ConceptMapTabInit
    /\ TranscriptionTabInit
    /\ ProcessingPageInit
    /\ HomePageInit

NextQuiz ==
    \/ \E mode \in QuestionModes : setQuestionMode(mode)
    \/ \E questionIndex \in 0..(Len(mcQuestions) - 1) :
          \E answerIndex \in
                0..(Len(mcQuestions[questionIndex + 1].options) - 1) :
             ClickOption(questionIndex, answerIndex)
    \/ ClickStartTest
    \/ ClickCompleteTest
    \/ ClickResetTest

SpecQuiz == InitQuiz /\ [][NextQuiz]_vars

----------------------------------------------------------------------------
(* The concept-map view, ConceptMapTab.tsx *)

\* what a handler of the concept-map view leaves alone outside that view
ConceptMapViewOnly ==
    UNCHANGED <<searchVars, pageVars, lectureVars, quizVars, restVars>>

RECURSIVE GCD(_, _)
GCD(a, b) == IF b = 0 THEN a ELSE GCD(b, a % b)

\* the number num / den, num and den positive, in lowest terms
Fraction(num, den) ==
    [num |-> num \div GCD(num, den), den |-> den \div GCD(num, den)]

Times(a, b) == Fraction(a.num * b.num, a.den * b.den)

Over(a, b) == Fraction(a.num * b.den, a.den * b.num)

LessEq(a, b) == a.num * b.den <= b.num * a.den

MinFraction(a, b) == IF LessEq(a, b) THEN a ELSE b

MaxFraction(a, b) == IF LessEq(a, b) THEN b ELSE a

\* the factor 1.2 of lines 91 and 95
ZoomStep == [num |-> 6, den |-> 5]

\* the limits 3 and 0.5 of lines 91 and 95
MaxZoom == [num |-> 3, den |-> 1]

MinZoom == [num |-> 1, den |-> 2]

\* the types offered by the filter, lines 125 and 194-198
nodeTypes == {conceptMap.nodes[n].type : n \in 1..Len(conceptMap.nodes)}

\* filteredNodes, lines 121-123, as the set of their positions in nodes
filteredNodes ==
    {n \in 1..Len(conceptMap.nodes) :
        filterType = "all" \/ conceptMap.nodes[n].type = filterType}

\* the ids that calculateLayout gives a position, lines 30-62: the first
\* root, the main nodes and the nodes that are neither root nor main
Positioned ==
    LET nodes == conceptMap.nodes
        roots == {n \in 1..Len(nodes) : nodes[n].type = "root"}
    IN  {nodes[n].id : n \in {m \in roots : \A k \in roots : m <= k}}
        \cup {nodes[n].id : n \in (1..Len(nodes)) \ roots}

\* centerX, centerY and radius, lines 31-33
centerX == 400

centerY == 300

radius == 200

\* the outer ring lies 100 further out, lines 56-57
OuterRingGap == 100

\* a position of the layout. The code stores
\*    x = centerX + cos(angle) * ring,  y = centerY + sin(angle) * ring
\* with angle = (index / count) * 2 * PI; the model keeps ring, index and
\* count, from which x and y follow, and does not evaluate cos and sin.
\* The root's { x: centerX, y: centerY } is the position of ring 0.
Position(ring, index, count) ==
    [centerX |-> centerX, centerY |-> centerY,
     ring |-> ring, index |-> index, count |-> count]

\* the nodes of a sequence that satisfy Test, in their order (filter)
IsMain(node) == node.type = "main"

IsOther(node) == node.type \notin {"root", "main"}

\* lines 44 and 53
mainNodes == SelectSeq(conceptMap.nodes, IsMain)

otherNodes == SelectSeq(conceptMap.nodes, IsOther)

\* the 0-based index of the last node of the sequence with the id; a
\* later nodePositions.set of the same id replaces an earlier one
LastIndexOf(nodes, id) ==
    CHOOSE k \in 0..(Len(nodes) - 1) :
        /\ nodes[k + 1].id = id
        /\ \A j \in 0..(Len(nodes) - 1) : nodes[j + 1].id = id => j <= k

HasId(nodes, id) == \E k \in 1..Len(nodes) : nodes[k].id = id

\* calculateLayout placing the root and the main nodes only
calculateLayoutNoOuter ==
    LET nodes == conceptMap.nodes
        roots == {n \in 1..Len(nodes) : nodes[n].type = "root"}
        placed == {nodes[n].id : n \in {m \in roots : \A k \in roots : m <= k}}
                  \cup {mainNodes[n].id : n \in 1..Len(mainNodes)}
    IN  [id \in placed |->
           IF HasId(mainNodes, id)
           THEN Position(radius, LastIndexOf(mainNodes, id), Len(mainNodes))
           ELSE Position(0, 0, 1)]

\* calculateLayout, lines 30-62: the Map from node id to position after
\* the root, then the main nodes, then the other nodes have been set
calculateLayout ==
    [id \in Positioned |->
       IF HasId(otherNodes, id)
       THEN Position(radius + OuterRingGap, LastIndexOf(otherNodes, id),
                     Len(otherNodes))
       ELSE IF HasId(mainNodes, id)
       THEN Position(radius, LastIndexOf(mainNodes, id), Len(mainNodes))
       ELSE Position(0, 0, 1)]

\* line 64
nodePositions == calculateLayout

\* the edges that are drawn, lines 251-260, as their positions in edges:
\* both ends are found among the nodes and both have a position
DrawnEdges ==
    {e \in 1..Len(conceptMap.edges) :
        /\ HasId(conceptMap.nodes, conceptMap.edges[e].from)
        /\ HasId(conceptMap.nodes, conceptMap.edges[e].to)
        /\ conceptMap.edges[e].from \in DOMAIN nodePositions
        /\ conceptMap.edges[e].to \in DOMAIN nodePositions}

\* handleNodeClick following the edges that leave the node only
handleNodeClickOutgoing(nodeId) ==
    /\ IF selectedNode = nodeId
       THEN /\ selectedNode' = "null"
            /\ highlightedNodes' = {}
       ELSE /\ selectedNode' = nodeId
            /\ highlightedNodes' =
                 {nodeId}
                 \cup {conceptMap.edges[e].to :
                         e \in {f \in 1..Len(conceptMap.edges) :
                                   conceptMap.edges[f].from = nodeId}}
    /\ UNCHANGED <<zoom, pan, showLabels, filterType>>
    /\ UNCHANGED <<searchVars, pageVars, lectureVars, quizVars, restVars>>

\* handleNodeClick, lines 66-88
handleNodeClick(nodeId) ==
    /\ IF selectedNode = nodeId
       THEN /\ selectedNode' = "null"
            /\ highlightedNodes' = {}
       ELSE /\ selectedNode' = nodeId
            /\ highlightedNodes' =
                 {nodeId}
                 \cup {conceptMap.edges[e].to :
                         e \in {f \in 1..Len(conceptMap.edges) :
                                   conceptMap.edges[f].from = nodeId}}
                 \cup {conceptMap.edges[e].from :
                         e \in {f \in 1..Len(conceptMap.edges) :
                                   conceptMap.edges[f].to = nodeId}}
    /\ UNCHANGED <<zoom, pan, showLabels, filterType>>
    /\ ConceptMapViewOnly

\* the circle of a node, lines 303-324: drawn for the filtered nodes that
\* have a position
ClickNode(n) ==
    /\ n \in filteredNodes
    /\ conceptMap.nodes[n].id \in Positioned
    /\ handleNodeClick(conceptMap.nodes[n].id)

\* handleZoomIn, lines 90-92
handleZoomIn ==
    /\ zoom' = MinFraction(Times(zoom, ZoomStep), MaxZoom)
    /\ UNCHANGED <<pan, selectedNode, highlightedNodes, showLabels,
                   filterType>>
    /\ ConceptMapViewOnly

\* handleZoomOut, lines 94-96
handleZoomOut ==
    /\ zoom' = MaxFraction(Over(zoom, ZoomStep), MinZoom)
    /\ UNCHANGED <<pan, selectedNode, highlightedNodes, showLabels,
                   filterType>>
    /\ ConceptMapViewOnly

\* handleReset, lines 98-103
handleReset ==
    /\ zoom' = InitialZoom
    /\ pan' = [x |-> 0, y |-> 0]
    /\ selectedNode' = "null"
    /\ highlightedNodes' = {}
    /\ UNCHANGED <<showLabels, filterType>>
    /\ ConceptMapViewOnly

\* the labels button, line 158
ToggleLabels ==
    /\ showLabels' = ~showLabels
    /\ UNCHANGED <<zoom, pan, selectedNode, highlightedNodes, filterType>>
    /\ ConceptMapViewOnly

\* the filter select, lines 190-198
setFilterType(type) ==
    /\ filterType' = type
    /\ UNCHANGED <<zoom, pan, selectedNode, highlightedNodes, showLabels>>
    /\ ConceptMapViewOnly

\* downloadSVG, lines 127-140: the drawing is serialised and handed to the
\* browser
downloadSVG ==
    /\ UNCHANGED mapVars
    /\ ConceptMapViewOnly

----------------------------------------------------------------------------
(* The concept-map view on every small map: selection and filter *)

MaxNodes == 3

MapIds == {"r", "m", "c"}

Types == {"root", "main", "concept"}

\* every sequence of at most MaxNodes nodes, ids and roots repeated or not
NodeLists ==
    UNION {[1..n -> [id : MapIds, type : Types]] : n \in 0..MaxNodes}

\* no edge; a chain; an edge to "z", which is no node; a loop
EdgeLists ==
    { <<>>,
      << Edge("r", "m"), Edge("m", "c") >>,
      << Edge("c", "m"), Edge("m", "z") >>,
      << Edge("m", "m"), Edge("c", "r") >> }

LayoutMaps == {[nodes |-> ns, edges |-> es] : ns \in NodeLists, es \in EdgeLists}

\* the concept-map view just mounted on one of the maps
InitMap ==
    /\ activeTab = "concept-map" /\ isPlaying = FALSE /\ orphanTimers = 0
    /\ transcription = TinyTranscript
    /\ summaries = SomeSummaries
    /\ questions = SoundQuestions
    /\ conceptMap \in LayoutMaps
    /\ search_results = SomeSearchResults
    /\ SearchTabInit
    /\ QuestionsTabInit
    /\ ConceptMapTabInit
    /\ TranscriptionTabInit
    /\ ProcessingPageInit
    /\ HomePageInit

NextMap ==
    \/ \E n \in 1..Len(conceptMap.nodes) : ClickNode(n)
    \/ handleReset
    \/ \E type \in {"all"} \cup nodeTypes : setFilterType(type)

SpecMap == InitMap /\ [][NextMap]_vars

----------------------------------------------------------------------------
(* The transcript view, TranscriptionTab in SearchTab.tsx *)

\* what a handler of the transcript view leaves alone outside that view
TranscriptViewOnly ==
    UNCHANGED <<searchVars, pageVars, lectureVars, quizVars, mapVars,
                processingVars, homeVars>>

\* the test of the filter, line 459
MatchesSearchTerm(segment) ==
    Includes(ToLower(segment.text), ToLower(searchTerm))

\* filteredSegments, lines 458-460
filteredSegments == SelectSeq(transcription.segments, MatchesSearchTerm)

\* the list that is mapped to the segment cards, line 600
displayedSegments ==
    IF searchTerm # <<>> THEN filteredSegments ELSE transcription.segments

\* the search input, line 547
setSearchTerm(term) ==
    /\ searchTerm' = term
    /\ UNCHANGED <<currentSegment, viewMode>>
    /\ TranscriptViewOnly

\* the play button of the card of an index, line 618; the cards are
\* listed in the segments view
ClickPlay(index) ==
    /\ viewMode = "segments"
    /\ index \in 0..(Len(displayedSegments) - 1)
    /\ currentSegment' = IF currentSegment = index THEN NoSegment ELSE index
    /\ UNCHANGED <<searchTerm, viewMode>>
    /\ TranscriptViewOnly

\* the view button, line 508
ToggleViewMode ==
    /\ viewMode' = IF viewMode = "segments" THEN "full" ELSE "segments"
    /\ UNCHANGED <<searchTerm, currentSegment>>
    /\ TranscriptViewOnly

\* four segments "x", "a", "ab", "b"
FourTranscript ==
    [segments |-> Segments(<< <<"x">>, <<"a">>, <<"a", "b">>, <<"b">> >>)]

ViewTranscripts == {EmptyTranscript, TinyTranscript, FourTranscript}

SearchTerms == {<<>>, <<"a">>, <<"b">>, <<"x">>, <<"a", "b">>, <<"z">>}

\* the transcript view just mounted on one of the transcripts
InitTranscript ==
    /\ activeTab = "transcription" /\ isPlaying = FALSE /\ orphanTimers = 0
    /\ transcription \in ViewTranscripts
    /\ PlainLecture
    /\ SearchTabInit
    /\ QuestionsTabInit
    /\ ConceptMapTabInit
    /\ TranscriptionTabInit
    /\ ProcessingPageInit
    /\ HomePageInit

NextTranscript ==
    \/ \E term \in SearchTerms : setSearchTerm(term)
    \/ \E index \in 0..(Len(transcription.segments) - 1) : ClickPlay(index)
    \/ ToggleViewMode

SpecTranscript == InitTranscript /\ [][NextTranscript]_vars

----------------------------------------------------------------------------
(* The processing page, ProcessingPage.tsx *)

MaxTicks == 120

\* what the processing page leaves alone
ProcessingPageOnly ==
    UNCHANGED <<searchVars, pageVars, lectureVars, quizVars, mapVars,
                transcriptVars, homeVars>>

\* the ids of steps, lines 8-57
steps ==
    << "upload", "transcription", "search_index", "summarization",
       "questions", "concept_map" >>

\* the interval callback putting the step index down without Math.min
TickNoMin ==
    /\ IF progress >= 100
       THEN UNCHANGED <<progress, currentStep>>
       ELSE LET newProgress == progress + 2
                stepIndex == (newProgress * Len(steps)) \div 100
            IN  /\ currentStep' = stepIndex
                /\ progress' = newProgress
    /\ ticks' = ticks + 1
    /\ ProcessingPageOnly

\* the interval callback, lines 60-73. Math.floor((newProgress / 100) * 6)
\* is the integer quotient of newProgress * 6 by 100: the product is a whole
\* number only for 50 and 100, whose hundredths are exact, and is at least
\* 0.04 away from one otherwise
Tick ==
    /\ IF progress >= 100
       THEN UNCHANGED <<progress, currentStep>>
       ELSE LET newProgress == progress + 2
                stepIndex == (newProgress * Len(steps)) \div 100
            IN  /\ currentStep' = Min(stepIndex, Len(steps) - 1)
                /\ progress' = newProgress
    /\ ticks' = ticks + 1
    /\ ProcessingPageOnly

\* the display of the step of a 0-based index, lines 111-113
isCompleted(index) == index < currentStep

isCurrent(index) == index = currentStep

isPending(index) == index > currentStep

\* the processing page just mounted
InitProcessing ==
    /\ activeTab = "summary" /\ isPlaying = FALSE /\ orphanTimers = 0
    /\ transcription = TinyTranscript
    /\ PlainLecture
    /\ SearchTabInit
    /\ QuestionsTabInit
    /\ ConceptMapTabInit
    /\ TranscriptionTabInit
    /\ ProcessingPageInit
    /\ HomePageInit

NextProcessing == ticks < MaxTicks /\ Tick

SpecProcessing == InitProcessing /\ [][NextProcessing]_vars

\* setInterval keeps calling back while the page is mounted
SpecProcessingFair ==
    InitProcessing /\ [][NextProcessing]_vars /\ WF_vars(NextProcessing)

----------------------------------------------------------------------------
(* The home page, part_001 *)

HomePageOnly ==
    UNCHANGED <<searchVars, pageVars, lectureVars, quizVars, mapVars,
                transcriptVars, processingVars>>

\* line 49
validTypes ==
    <<"audio/mp3", "audio/mpeg", "audio/wav", "audio/x-m4a", "audio/mp4">>

\* line 50
validExtensions ==
    << <<".", "m", "p", "3">>, <<".", "w", "a", "v">>,
       <<".", "m", "4", "a">> >>

\* String.prototype.endsWith
EndsWith(s, t) ==
    /\ Len(t) <= Len(s)
    /\ SubSeq(s, Len(s) - Len(t) + 1, Len(s)) = t

\* the check without toLowerCase
isValidAudioFileNoLower(file) ==
    \/ \E i \in 1..Len(validTypes) : validTypes[i] = file.type
    \/ \E i \in 1..Len(validExtensions) :
          EndsWith(file.name, validExtensions[i])

\* lines 48-52
isValidAudioFile(file) ==
    \/ \E i \in 1..Len(validTypes) : validTypes[i] = file.type
    \/ \E i \in 1..Len(validExtensions) :
          EndsWith(ToLower(file.name), validExtensions[i])

\* lines 12-20; the handler is bound to dragenter, dragleave and dragover
handleDrag(eventType) ==
    /\ dragActive' =
          IF eventType \in {"dragenter", "dragover"} THEN TRUE
          ELSE IF eventType = "dragleave" THEN FALSE
          ELSE dragActive
    /\ lastEvent' = [type |-> eventType, files |-> <<>>]
    /\ UNCHANGED <<uploaded, alerted>>
    /\ HomePageOnly

\* lines 27-34 and 38-45: the first file goes to onFileUpload or to the alert
OfferFile(files) ==
    IF Len(files) > 0
    THEN IF isValidAudioFile(files[1])
         THEN /\ uploaded' = uploaded \cup {files[1]}
              /\ UNCHANGED alerted
         ELSE /\ alerted' = alerted \cup {files[1]}
              /\ UNCHANGED uploaded
    ELSE UNCHANGED <<uploaded, alerted>>

\* lines 22-35
handleDrop(files) ==
    /\ dragActive' = FALSE
    /\ OfferFile(files)
    /\ lastEvent' = [type |-> "drop", files |-> files]
    /\ HomePageOnly

\* lines 37-46
handleFileSelect(files) ==
    /\ OfferFile(files)
    /\ lastEvent' = [type |-> "change", files |-> files]
    /\ UNCHANGED dragActive
    /\ HomePageOnly

(* The behaviours of the home page *)

FileTypes == {"audio/mp4", "video/mp4", ""}

FileNames ==
    { <<"a", ".", "M", "4", "a">>,
      <<"m", "p", "3">>,
      <<"a", ".", "w", "a", "v", ".", "t">> }

Files == [type : FileTypes, name : FileNames]

\* e.dataTransfer.files and e.target.files
FileLists == {<<>>} \cup {<<f>> : f \in Files}

DragEvents == {"dragenter", "dragover", "dragleave"}

InitHome ==
    /\ activeTab = "summary" /\ isPlaying = FALSE /\ orphanTimers = 0
    /\ transcription = TinyTranscript
    /\ PlainLecture
    /\ SearchTabInit
    /\ QuestionsTabInit
    /\ ConceptMapTabInit
    /\ TranscriptionTabInit
    /\ ProcessingPageInit
    /\ HomePageInit

NextHome ==
    \/ \E eventType \in DragEvents : handleDrag(eventType)
    \/ \E files \in FileLists : handleDrop(files)
    \/ \E files \in FileLists : handleFileSelect(files)

SpecHome == InitHome /\ [][NextHome]_vars

----------------------------------------------------------------------------
(* The results page with its views, ResultsPage.tsx *)

\* TabType, line 29
Tabs == {"transcription", "summary", "questions", "concept-map", "search"}

\* the lecture data as one record, part_000:97-107
LectureData ==
    [transcription |-> transcription,
     summaries |-> summaries,
     questions |-> questions,
     concept_map |-> conceptMap,
     search_results |-> search_results]

Lectures ==
    { [transcription |-> TinyTranscript,
       summaries |-> SomeSummaries,
       questions |-> SoundQuestions,
       concept_map |-> StarMap,
       search_results |-> SomeSearchResults],
      [transcription |-> EmptyTranscript,
       summaries |-> SomeSummaries,
       questions |-> UnsoundQuestions,
       concept_map |-> LooseMap,
       search_results |-> <<>>] }

\* the next state holds a search view as it is mounted, SearchTab.tsx:23-28
MountSearchTab ==
    /\ query' = <<>>
    /\ results' = <<>>
    /\ isSearching' = FALSE
    /\ sortBy' = "relevance"
    /\ showAdvanced' = FALSE
    /\ searchHistory' = <<>>
    /\ pending' = <<>>
    /\ shown' = [kind |-> "initial"]

\* the same for the questions view, SearchTab.tsx:703-709
MountQuestionsTab ==
    /\ questionMode' = "multiple_choice"
    /\ currentQuestionIndex' = 0
    /\ selectedAnswers' = NoAnswers
    /\ showExplanation' = {}
    /\ testMode' = FALSE
    /\ testCompleted' = FALSE
    /\ score' = 0

\* the same for the concept-map view, ConceptMapTab.tsx:22-27
MountConceptMapTab ==
    /\ zoom' = InitialZoom
    /\ pan' = [x |-> 0, y |-> 0]
    /\ selectedNode' = "null"
    /\ highlightedNodes' = {}
    /\ showLabels' = TRUE
    /\ filterType' = "all"

\* the same for the transcript view, SearchTab.tsx:453-456
MountTranscriptionTab ==
    /\ searchTerm' = <<>>
    /\ currentSegment' = NoSegment
    /\ viewMode' = "segments"

\* a tab button, line 164. Each view is rendered only while its tab is the
\* active one (lines 180-201): the view that is left is unmounted and its
\* state is lost, and the view that is entered starts from its initial
\* state. The timers of a search view that is left are not cancelled.
setActiveTab(tab) ==
    IF tab = activeTab
    THEN UNCHANGED vars
    ELSE /\ activeTab' = tab
         /\ orphanTimers' = orphanTimers + Len(pending)
         /\ MountSearchTab
         /\ MountQuestionsTab
         /\ MountConceptMapTab
         /\ MountTranscriptionTab
         /\ UNCHANGED <<isPlaying, transcription, lectureVars, processingVars,
                        homeVars>>

\* handleDownload, lines 73-85: the summaries or the whole lecture are
\* serialised and handed to the browser
handleDownload(type) ==
    UNCHANGED vars

\* the timer callback of a search view that was unmounted runs, lines
\* 50-96: it fills and sorts an array of its own, and its state updates
\* go to a component that no longer exists
OrphanTimerFires ==
    /\ orphanTimers > 0
    /\ orphanTimers' = orphanTimers - 1
    /\ UNCHANGED <<activeTab, isPlaying, searchVars, lectureVars, quizVars,
                   mapVars, restVars>>

\* the results page just mounted on one of the lectures
InitLecture ==
    /\ activeTab = "summary" /\ isPlaying = FALSE /\ orphanTimers = 0
    /\ \E lecture \in Lectures :
          /\ transcription = lecture.transcription
          /\ summaries = lecture.summaries
          /\ questions = lecture.questions
          /\ conceptMap = lecture.concept_map
          /\ search_results = lecture.search_results
    /\ SearchTabInit
    /\ QuestionsTabInit
    /\ ConceptMapTabInit
    /\ TranscriptionTabInit
    /\ ProcessingPageInit
    /\ HomePageInit

\* no more than MaxPending timers at once, mounted or not
TimerRoom == Len(pending) + orphanTimers < MaxPending

NextLecture ==
    \/ \E tab \in Tabs : setActiveTab(tab)
    \/ \E type \in {"pdf", "json"} : handleDownload(type)
    \/ OrphanTimerFires
    \/ \E q \in HistoryQueries :
          activeTab = "search" /\ TimerRoom /\ SubmitQuery(q)
    \/ \E i \in 1..Len(searchHistory) :
          activeTab = "search" /\ TimerRoom /\ ClickHistory(i)
    \/ activeTab = "search" /\ ToggleAdvanced
    \/ \E s \in SortModes :
          activeTab = "search" /\ TimerRoom /\ ChangeSort(s)
    \/ activeTab = "search" /\ TimerFires
    \/ \E mode \in QuestionModes :
          activeTab = "questions" /\ setQuestionMode(mode)
    \/ \E questionIndex \in 0..(Len(mcQuestions) - 1) :
          \E answerIndex \in
                0..(Len(mcQuestions[questionIndex + 1].options) - 1) :
             activeTab = "questions" /\ ClickOption(questionIndex, answerIndex)
    \/ activeTab = "questions" /\ ClickStartTest
    \/ activeTab = "questions" /\ ClickCompleteTest
    \/ activeTab = "questions" /\ ClickResetTest
    \/ \E n \in 1..Len(conceptMap.nodes) :
          activeTab = "concept-map" /\ ClickNode(n)
    \/ activeTab = "concept-map" /\ handleZoomIn
    \/ activeTab = "concept-map" /\ handleZoomOut
    \/ activeTab = "concept-map" /\ handleReset
    \/ activeTab = "concept-map" /\ ToggleLabels
    \/ \E type \in {"all"} \cup nodeTypes :
          activeTab = "concept-map" /\ setFilterType(type)
    \/ activeTab = "concept-map" /\ downloadSVG

SpecLecture == InitLecture /\ [][NextLecture]_vars

----------------------------------------------------------------------------
(* Vocabulary of the properties, stated without the operators of the model *)

\* the query consists of white space only (or is empty)
IsBlank(q) == \A i \in 1..Len(q) : q[i] = " "

\* the query occurs in the text at 0-based position i, letter case ignored
OccursAt(text, q, i) ==
    /\ i \in 0..(Len(text) - Len(q))
    /\ \A k \in 1..Len(q) : ToLowerChar(text[i + k]) = ToLowerChar(q[k])

Occurs(text, q) == \E i \in 0..Len(text) : OccursAt(text, q, i)

FirstOccurrence(text, q) ==
    CHOOSE i \in 0..Len(text) :
        OccursAt(text, q, i) /\ \A j \in 0..(i - 1) : ~OccursAt(text, q, j)

\* the query terms that occur in the segment, counted with repetitions
TermsPresent(segment, q) ==
    {k \in 1..Len(searchTerms(q)) : Occurs(segment.text, searchTerms(q)[k])}

\* the number of seconds a time code "00:00:SS" stands for
Seconds(timeCode) == CHOOSE n \in 0..59 : TimeCode(n) = timeCode

Range(seq) == {seq[i] : i \in 1..Len(seq)}

\* results is the outcome of a completed search
SearchShown == shown.kind = "search"

\* a step in which a search with a blank query is issued
BlankSearchStep ==
    \/ \E q \in Queries : IsBlank(q) /\ handleSearch(q)
    \/ /\ query # <<>> /\ IsBlank(query)
       /\ \E s \in SortModes : ChangeSort(s)

----------------------------------------------------------------------------
(* Properties *)

\* C1: a search issued with an empty or white-space-only query yields an
\* empty result sequence, arms no timer, and leaves the query history as
\* it was.
C1_BlankQueryClearsResults ==
    [][BlankSearchStep =>
          /\ results' = <<>>
          /\ searchHistory' = searchHistory
          /\ pending' = pending]_vars

C1_Witness ==
    /\ shown.kind = "cleared"
    /\ query = QSpace
    /\ results = <<>>
    /\ searchHistory # <<>>

\* C2: the result sequence of a search holds at most 10 results, however
\* many segments match and whichever sort mode is active.
C2_AtMostTenResults == Len(results) <= 10

C2_Witness ==
    /\ SearchShown
    /\ shown.sortBy = "time"
    /\ Len(results) = 10
    /\ Cardinality({k \in 1..Len(transcription.segments) :
            TermsPresent(transcription.segments[k], shown.query) # {}}) > 10

\* C3: in relevance mode the results are in descending order of score, and
\* two results of equal score are in ascending order of segment start.
C3_RelevanceOrder ==
    (SearchShown /\ shown.sortBy = "relevance") =>
        \A i, j \in 1..Len(results) :
            i < j =>
                /\ results[i].score.num * results[j].score.den
                     >= results[j].score.num * results[i].score.den
                /\ results[i].score = results[j].score =>
                     Seconds(results[i].segment.start)
                       < Seconds(results[j].segment.start)

C3_Witness ==
    /\ SearchShown
    /\ shown.sortBy = "relevance"
    /\ \E i, j, k \in 1..Len(results) :
          /\ i < j /\ j < k
          /\ results[i].score = results[j].score
          /\ results[j].score # results[k].score

\* C4: every search result's score lies in the closed interval [0,1].
C4_ScoreWithinUnitInterval ==
    \A i \in 1..Len(results) :
        /\ 0 <= results[i].score.num
        /\ results[i].score.num <= results[i].score.den

\* C5: every result has a score above 0 and belongs to a segment in which a
\* query term occurs; the segments in which a query term occurs are the
\* candidates: all of them are results when there are at most 10, and 10
\* of them are otherwise.
C5_ExactlyThePositiveScores ==
    SearchShown =>
        LET segments == transcription.segments
            matching == {k \in 1..Len(segments) :
                            TermsPresent(segments[k], shown.query) # {}}
        IN  /\ \A i \in 1..Len(results) :
                  /\ results[i].score.num > 0
                  /\ \E k \in matching : results[i].segment = segments[k]
            /\ Len(results) = Min(10, Cardinality(matching))
            /\ Cardinality(matching) <= 10 =>
                  \A k \in matching :
                      \E i \in 1..Len(results) :
                          results[i].segment = segments[k]

C5_Witness ==
    /\ SearchShown
    /\ results # <<>>
    /\ \E k \in 1..Len(transcription.segments) :
          /\ TermsPresent(transcription.segments[k], shown.query) = {}
          /\ \A i \in 1..Len(results) :
                results[i].segment # transcription.segments[k]

\* C6: the score of a segment is (the number of query terms that occur in
\* the lower-cased segment, plus once 2 when the whole lower-cased query is
\* a substring of it) divided by the number of query terms.
C6_ScoreFormula ==
    SearchShown =>
        \A i \in 1..Len(results) :
            LET segment == results[i].segment
                bonus == IF Occurs(segment.text, shown.query) THEN 2 ELSE 0
            IN  /\ results[i].score.den = Len(searchTerms(shown.query))
                /\ results[i].score.num =
                      Cardinality(TermsPresent(segment, shown.query)) + bonus

\* C7: for the single segment "machine learning is a subset of artificial
\* intelligence" and the query "machine learning", the search returns
\* exactly 1 result, of score 1.0, whose context is the whole segment text.
C7_Scenario ==
    (SearchShown /\ transcription = ScenarioTranscript
        /\ shown.query = QPhrase) =>
        /\ Len(results) = 1
        /\ results[1].score.num = results[1].score.den
        /\ results[1].context = ScenarioText

\* C8: the search by time returns the same set of results as the search by
\* relevance for the same transcript and query, in ascending order of
\* segment start.
C8_TimeModeSameSet ==
    (SearchShown /\ shown.sortBy = "time") =>
        /\ Range(results) =
              Range(Slice(sortedResults(transcription.segments, shown.query,
                                        "relevance"), MaxResults))
        /\ \A i, j \in 1..Len(results) :
              i < j => Seconds(results[i].segment.start)
                         < Seconds(results[j].segment.start)

\* C9: when the query occurs in the segment text (letter case ignored), the
\* context is the text from 50 characters before the first occurrence to
\* 50 characters after its end, clipped to the text, with a leading "..."
\* exactly when the window starts after position 0 and a trailing "..."
\* exactly when it ends before the end of the text.
C9_ContextWindow ==
    SearchShown =>
        \A i \in 1..Len(results) :
            LET text == results[i].segment.text
                q == shown.query
                first == FirstOccurrence(text, q)
                from == IF first - 50 > 0 THEN first - 50 ELSE 0
                to == IF first + Len(q) + 50 < Len(text)
                      THEN first + Len(q) + 50 ELSE Len(text)
            IN  Occurs(text, q) =>
                    results[i].context =
                        (IF from > 0 THEN <<".", ".", ".">> ELSE <<>>)
                        \o SubSeq(text, from + 1, to)
                        \o (IF to < Len(text) THEN <<".", ".", ".">>
                            ELSE <<>>)

C9_Witness ==
    /\ SearchShown
    /\ \E i, j \in 1..Len(results) :
          /\ Occurs(results[i].segment.text, shown.query)
          /\ results[i].context = results[i].segment.text
          /\ Occurs(results[j].segment.text, shown.query)
          /\ Len(results[j].segment.text) = 51 + Len(shown.query) + 51
          /\ Len(results[j].context) = 3 + 50 + Len(shown.query) + 50 + 3

\* C10: when the query is not a substring of the segment text, the context
\* is the first 100 characters of the text, followed by an ellipsis only
\* when the text is longer than 100 characters.
C10_FallbackContext ==
    SearchShown =>
        \A i \in 1..Len(results) :
            LET text == results[i].segment.text
            IN  ~Occurs(text, shown.query) =>
                    results[i].context =
                        IF Len(text) > 100
                        THEN SubSeq(text, 1, 100) \o <<".", ".", ".">>
                        ELSE text

\* the number of characters of a context that come from the segment text:
\* the segment texts of the model hold no full stop, the ellipses hold
\* nothing else
ContextTextLength(context) ==
    Cardinality({i \in 1..Len(context) : context[i] # "."})

Words(q) ==
    {searchTerms(q)[k] : k \in {j \in 1..Len(searchTerms(q)) :
                                   searchTerms(q)[j] # <<>>}}

\* a step in which a timer callback runs
TimerStep == pending # <<>> /\ pending' = Tail(pending)

\* C12: the query history never holds more than 5 entries, whatever the
\* searches and their overlaps.
C12_HistoryAtMostFive == Len(searchHistory) <= 5

C12_Witness ==
    /\ Len(searchHistory) = 5
    /\ pending # <<>>
    /\ ~Contains(Head(pending).searchHistory, Head(pending).searchQuery)

\* C13: the query history contains no string twice, whatever the searches
\* and their overlaps.
C13_HistoryHasNoDuplicates ==
    \A i, j \in 1..Len(searchHistory) :
        i # j => searchHistory[i] # searchHistory[j]

\* C14: after a search for a non-blank query q has completed, q is the
\* first entry of the query history, also when q was in it before.
C14_LatestQueryFirst ==
    SearchShown =>
        /\ searchHistory # <<>>
        /\ searchHistory[1] = shown.query

\* C15: the query history has no effect on the search: the results shown
\* for a transcript, a query and a sort mode are the same sequence whatever
\* the history held when the search was issued and when it completed.
C15_ResultsIndependentOfHistory ==
    SearchShown =>
        results = Slice(sortedResults(transcription.segments, shown.query,
                                      shown.sortBy), MaxResults)

C15_Witness ==
    /\ SearchShown
    /\ results # <<>>
    /\ Len(searchHistory) >= 2
    /\ searchHistory[1] # shown.query

\* C16: no term of a query is empty: with leading, trailing or repeated
\* spaces in the query, a result is still a segment in which one of the
\* query's words occurs.
C16_ResultsHoldAQueryWord ==
    SearchShown =>
        \A i \in 1..Len(results) :
            \E word \in Words(shown.query) :
                Occurs(results[i].segment.text, word)

\* C17: a search of a transcript without segments ends in an error, not in
\* a (possibly empty) result list.
C17_EmptyTranscriptIsAnError ==
    transcription.segments = <<>> => ~SearchShown

\* C18: when the search whose results are shown is issued again, after the
\* first has completed and in the same sort mode, its completion leaves the
\* results and the query history as they are.
C18_RequeryIdempotent ==
    [][(/\ TimerStep
        /\ SearchShown
        /\ shown.query = Head(pending).searchQuery
        /\ shown.sortBy = Head(pending).sortBy
        /\ Head(pending).searchHistory = searchHistory) =>
          /\ results' = results
          /\ searchHistory' = searchHistory]_vars

C18_Witness ==
    /\ SearchShown
    /\ results # <<>>
    /\ pending # <<>>
    /\ shown.query = Head(pending).searchQuery
    /\ shown.sortBy = Head(pending).sortBy
    /\ Head(pending).searchHistory = searchHistory
    /\ Contains(searchHistory, shown.query)

\* C19: the lecture data are immutable: no step of the results page
\* (tab switch, search, sort-mode change, timer, answer selection, test
\* start, completion and reset, node click, zoom, reset, filter, download)
\* changes the transcription, the summaries, the questions, the concept map
\* or the delivered search results
C19_LectureImmutable == [][LectureData' = LectureData]_vars

\* a search was issued and its view left with the timer still to run, and
\* in the questions view a test was then taken and completed with a
\* positive score
C19_Witness ==
    /\ orphanTimers > 0
    /\ activeTab = "questions"
    /\ testCompleted
    /\ score > 0

\* every correct_answer of the quiz is the index of one of the options
SoundQuiz ==
    \A n \in 1..Len(mcQuestions) :
       mcQuestions[n].correct_answer \in 0..(Len(mcQuestions[n].options) - 1)

\* the 0-based indices of the questions answered with their correct_answer
CorrectlyAnswered ==
    {i \in 0..(Len(mcQuestions) - 1) :
        /\ i \in DOMAIN selectedAnswers
        /\ selectedAnswers[i] = mcQuestions[i + 1].correct_answer}

\* C20: once the test is completed, the score is the number of
\* multiple-choice questions whose selected answer is the correct_answer,
\* an unanswered question counting as wrong, so that the score lies between
\* 0 and the number of multiple-choice questions
C20_ScoreCountsCorrectAnswers ==
    testCompleted =>
       /\ score = Cardinality(CorrectlyAnswered)
       /\ 0 <= score /\ score <= Len(mcQuestions)

\* a completed test with the full score on a quiz of several questions,
\* each of whose correct_answer is the index of an option
C20_Witness ==
    /\ testCompleted
    /\ SoundQuiz
    /\ Len(mcQuestions) > 1
    /\ score = Len(mcQuestions)

\* the ids of the nodes of the map
NodeIds == {conceptMap.nodes[k].id : k \in 1..Len(conceptMap.nodes)}

\* the ids that an edge joins to the id n, in either direction
Joined(n) ==
    {id \in {conceptMap.edges[e].from : e \in 1..Len(conceptMap.edges)}
            \cup {conceptMap.edges[e].to : e \in 1..Len(conceptMap.edges)} :
        \E e \in 1..Len(conceptMap.edges) :
           \/ conceptMap.edges[e] = Edge(n, id)
           \/ conceptMap.edges[e] = Edge(id, n)}

\* the node ids are unique and exactly one node is a root
WellFormedMap ==
    /\ \A j, k \in 1..Len(conceptMap.nodes) :
          conceptMap.nodes[j].id = conceptMap.nodes[k].id => j = k
    /\ Cardinality({k \in 1..Len(conceptMap.nodes) :
                       conceptMap.nodes[k].type = "root"}) = 1

\* C21: in a map with unique node ids and exactly one root every node has
\* a position, the root at the centre, a main node on the inner ring and
\* any other node on the outer ring; and in any map an edge is drawn only
\* when both its ends are ids of nodes and have a position
C21_LayoutPlacesEveryNode ==
    /\ WellFormedMap =>
          \A k \in 1..Len(conceptMap.nodes) :
             LET node == conceptMap.nodes[k]
             IN  /\ node.id \in DOMAIN nodePositions
                 /\ nodePositions[node.id].centerX = 400
                 /\ nodePositions[node.id].centerY = 300
                 /\ nodePositions[node.id].ring =
                       IF node.type = "root" THEN 0
                       ELSE IF node.type = "main" THEN 200
                       ELSE 300
    /\ \A e \in DrawnEdges :
          /\ conceptMap.edges[e].from \in NodeIds \cap DOMAIN nodePositions
          /\ conceptMap.edges[e].to \in NodeIds \cap DOMAIN nodePositions

\* a map of a root, a main node and a concept, with one edge drawn and one
\* edge (to the missing "z") left out, and one of its nodes clicked
C21_Witness ==
    /\ WellFormedMap
    /\ Len(conceptMap.nodes) = 3
    /\ {conceptMap.nodes[k].type : k \in 1..3} = Types
    /\ DrawnEdges # {}
    /\ DrawnEdges # 1..Len(conceptMap.edges)
    /\ selectedNode # "null"

\* C22: once no timer is pending, the results shown are those of the
\* search issued last: none when its query was blank, otherwise the capped
\* list for its query in the sort mode it was issued with. Under
\* SpecHistory every change of query or of sortBy issues a search, so the
\* search issued last is the one for the current query and sort mode.
C22_LatestSearchShown ==
    pending = <<>> =>
        results = IF IsBlank(query)
                  THEN <<>>
                  ELSE Slice(sortedResults(transcription.segments, query,
                                           sortBy), MaxResults)

\* C23: isSearching is true exactly while a search timer is pending
C23_SearchingWhilePending == isSearching <=> pending # <<>>

\* C24: a completed test is a test: testCompleted implies testMode; and
\* while the test stays completed, that is until the next start or reset,
\* no step changes the selected answers or the score
C24_CompletedTestFrozen ==
    /\ [](testCompleted => testMode)
    /\ [][testCompleted /\ testCompleted'
            => selectedAnswers' = selectedAnswers /\ score' = score]_vars

\* a completed test with answers and a positive score, the view switched
\* to the open questions since
C24_Witness ==
    /\ testCompleted
    /\ questionMode = "open_ended"
    /\ selectedAnswers # NoAnswers
    /\ score > 0

\* C25: while a test is running no explanation is shown; the step that
\* starts a test leaves no answer selected and no explanation shown, and
\* the step that completes it shows the explanation of every question
C25_RunningTestHidesExplanations ==
    /\ [](testMode /\ ~testCompleted => showExplanation = {})
    /\ [][(~testMode /\ testMode'
              => selectedAnswers' = NoAnswers /\ showExplanation' = {})
          /\ (~testCompleted /\ testCompleted'
              => showExplanation' = 0..(Len(mcQuestions) - 1))]_vars

\* a running test in which every question has been answered
C25_Witness ==
    /\ testMode /\ ~testCompleted
    /\ Len(mcQuestions) > 1
    /\ DOMAIN selectedAnswers = 0..(Len(mcQuestions) - 1)

\* C28: no id is highlighted exactly when no node is selected; with a node
\* selected the highlighted ids are that node's and every id that an edge
\* joins to it in either direction, whether or not it is the id of a node,
\* so that the highlighted nodes are the node and its neighbours; a click
\* on the selected node deselects it and a click on another node selects
\* that node
C28_HighlightIsNeighbourIds ==
    /\ [](/\ highlightedNodes = {} <=> selectedNode = "null"
          /\ selectedNode # "null" =>
                /\ highlightedNodes = {selectedNode} \cup Joined(selectedNode)
                /\ highlightedNodes \cap NodeIds =
                      {selectedNode} \cup (Joined(selectedNode) \cap NodeIds))
    /\ [][\A n \in 1..Len(conceptMap.nodes) :
             ClickNode(n) =>
                selectedNode' = IF selectedNode = conceptMap.nodes[n].id
                                THEN "null"
                                ELSE conceptMap.nodes[n].id]_vars

\* a node is selected that has an edge to it and an edge from it, after
\* another node was selected: its neighbours on both sides are highlighted
C28_Witness ==
    /\ selectedNode = "m"
    /\ conceptMap.edges = << Edge("r", "m"), Edge("m", "c") >>
    /\ highlightedNodes = {"r", "m", "c"}
    /\ NodeIds = {"r", "m", "c"}

\* C26: progress starts at 0, is always an even number in 0..100, grows by
\* exactly 2 at a tick until it is 100 and never changes otherwise; with
\* ticks kept coming it reaches 100 and then stays 100; currentStep is
\* always in 0..5 and a step leaves it as it is or advances it by one
C26_ProgressAdvancesToHundred ==
    /\ progress = 0
    /\ [](progress \in 0..100 /\ progress % 2 = 0 /\ currentStep \in 0..5)
    /\ [][/\ progress' = IF ticks' # ticks /\ progress < 100
                         THEN progress + 2
                         ELSE progress
          /\ currentStep' \in {currentStep, currentStep + 1}]_vars
    /\ <>(progress = 100)
    /\ [](progress = 100 => [](progress = 100))

\* the interval has called back again after progress reached 100
C26_Witness ==
    /\ progress = 100
    /\ ticks > 50
    /\ currentStep = 5

\* C27: when progress is 100 every one of the six steps is displayed as
\* completed, none as current or pending
C27_AllStepsCompletedAtHundred ==
    progress = 100 =>
        \A index \in 0..(Len(steps) - 1) :
            isCompleted(index) /\ ~isCurrent(index) /\ ~isPending(index)

\* the segments whose card carries the mark of the current segment
MarkedSegments ==
    {displayedSegments[k] :
        k \in {j \in 1..Len(displayedSegments) : currentSegment = j - 1}}

\* C29: a change of the search term never moves the mark of the current
\* segment: a segment that carries the mark after the change carried it
\* before (the mark may go with a segment that the filter removes)
C29_MarkStaysOnItsSegment ==
    [][searchTerm' # searchTerm
         => MarkedSegments' \subseteq MarkedSegments]_vars

\* the files the home page accepts: one of the five audio types, or a name
\* that in lower case is some text followed by .mp3, .wav or .m4a
AcceptedTypes ==
    {"audio/mp3", "audio/mpeg", "audio/wav", "audio/x-m4a", "audio/mp4"}

AcceptedEndings ==
    { <<".", "m", "p", "3">>, <<".", "w", "a", "v">>, <<".", "m", "4", "a">> }

Accepted(f) ==
    \/ f.type \in AcceptedTypes
    \/ \E k \in 0..Len(f.name) :
          [i \in 1..(Len(f.name) - k) |-> ToLowerChar(f.name[k + i])]
              \in AcceptedEndings

\* C30: onFileUpload is called only for accepted files, a dropped or
\* selected file that is not accepted raises the alert and is not uploaded,
\* and dragActive is false after every drop and every drag-leave
C30_OnlyAudioFilesUploaded ==
    /\ \A f \in uploaded : Accepted(f)
    /\ \A f \in alerted : ~Accepted(f)
    /\ (lastEvent.type \in {"drop", "change"} /\ Len(lastEvent.files) > 0)
          => IF Accepted(lastEvent.files[1])
             THEN lastEvent.files[1] \in uploaded
             ELSE lastEvent.files[1] \in alerted
    /\ lastEvent.type \in {"drop", "dragleave"} => ~dragActive

C30_Witness ==
    /\ [type |-> "", name |-> <<"a", ".", "M", "4", "a">>] \in uploaded
    /\ [type |-> "audio/mp4", name |-> <<"m", "p", "3">>] \in uploaded
    /\ [type |-> "video/mp4", name |-> <<"a", ".", "w", "a", "v", ".", "t">>]
          \in alerted
    /\ lastEvent.type = "drop"
    /\ ~dragActive

====
